---------------------------- MODULE Spec2Model ----------------------------
(***************************************************************************)
(* State-machine model of the SAM 3 Labeller annotation workbench:        *)
(* the concept/annotation store held by App (src/App.tsx), the detection  *)
(* services (src/services/geminiService.ts) and the drawing canvas        *)
(* (second SemanticCanvas of src/unnamed/part_002).                       *)
(*                                                                         *)
(* Numbers.  Normalised coordinates are integers in units of 1/10000, so  *)
(* 0.01 is 100 and 1.0 is 10000 (UnitOne).  Random numbers and backend    *)
(* grid coordinates are integers in 1/1000.  Confidences are integers in  *)
(* units of 1/100.  A presence score is an exact fraction [num, den] of   *)
(* confidence units.  Strings that the code transforms (concept names)    *)
(* are sequences of one-character strings.                                *)
(***************************************************************************)
EXTENDS Integers, Sequences, FiniteSets, TLC

VARIABLES
    concepts,        \* App: useState<Concept[]>
    annotations,     \* App: useState<Annotation[]>
    isProcessing,    \* App: useState(false)
    activeModel,     \* App: useState<ModelType>
    imageSrc,        \* App: useState<string>(DEMO_IMAGE)
    pending,         \* handleConceptSubmit calls suspended at their await
    pointer,         \* the browser's pointer over the canvas
    selectedTool,    \* canvas prop: the tool chosen in the toolbar
    activeConceptId, \* canvas prop: the concept drawing attaches to
    isDrawing,       \* SemanticCanvas: useState(false)
    currentPoints,   \* SemanticCanvas: useState<Point[]>([])
    hoveredId,       \* SemanticCanvas: useState<string | null>(null)
    currentTime,     \* App: useState(20), in tenths of a percent
    isPlaying        \* App: useState(false)

vars == <<concepts, annotations, isProcessing, activeModel, imageSrc, pending,
          pointer, selectedTool, activeConceptId, isDrawing, currentPoints,
          hoveredId, currentTime, isPlaying>>

playbackVars == <<currentTime, isPlaying>>
storeVars == <<concepts, annotations, isProcessing, activeModel, imageSrc,
               pending, playbackVars>>
canvasVars == <<pointer, selectedTool, activeConceptId, isDrawing, currentPoints,
                hoveredId>>

-----------------------------------------------------------------------------
(* Bounds of the model *)

MaxConcepts == 2     \* concepts in the list plus requests in flight
MaxManual == 1       \* hand-drawn annotations in the store
MaxClock == 2        \* distinct readings of Date.now()
MaxPoly == 4         \* vertices accumulated by the polygon tool

-----------------------------------------------------------------------------
(* Generic helpers *)

RECURSIVE SumSeq(_)
SumSeq(s) == IF s = <<>> THEN 0 ELSE Head(s) + SumSeq(Tail(s))

Min2(a, b) == IF a <= b THEN a ELSE b
Max2(a, b) == IF a >= b THEN a ELSE b

RECURSIVE MinOf(_)
MinOf(s) == IF Len(s) = 1 THEN s[1] ELSE Min2(Head(s), MinOf(Tail(s)))

RECURSIVE MaxOf(_)
MaxOf(s) == IF Len(s) = 1 THEN s[1] ELSE Max2(Head(s), MaxOf(Tail(s)))

Undefined == "undefined"

\* an id that is null or undefined (no derived id is empty)
NoId == <<>>

\* 1.0 as a normalised coordinate
UnitOne == 10 * 1000

-----------------------------------------------------------------------------
(* String.prototype.trim / toLowerCase / replace(/\s+/g, '-') *)

IsSpace(c) == c = " "

ToLowerChar(c) == IF c = "A" THEN "a" ELSE IF c = "B" THEN "b" ELSE c

RECURSIVE TrimStart(_)
TrimStart(s) ==
    IF s # <<>> /\ IsSpace(Head(s)) THEN TrimStart(Tail(s)) ELSE s

RECURSIVE TrimEnd(_)
TrimEnd(s) ==
    IF s # <<>> /\ IsSpace(s[Len(s)])
    THEN TrimEnd(SubSeq(s, 1, Len(s) - 1))
    ELSE s

Trim(s) == TrimEnd(TrimStart(s))

ToLowerCase(s) == [i \in DOMAIN s |-> ToLowerChar(s[i])]

RECURSIVE ReplaceWsRuns(_)
ReplaceWsRuns(s) ==
    IF s = <<>> THEN <<>>
    ELSE IF IsSpace(Head(s))
         THEN <<"-">> \o ReplaceWsRuns(TrimStart(s))
         ELSE <<Head(s)>> \o ReplaceWsRuns(Tail(s))

\* newConceptId of handleConceptSubmit, from the raw input value
\* faulty variant of DeriveId: the name is not trimmed first
DeriveIdUntrimmed(raw) == ReplaceWsRuns(ToLowerCase(raw))

DeriveId(raw) == ReplaceWsRuns(ToLowerCase(Trim(raw)))

-----------------------------------------------------------------------------
(* src/services/geminiService.ts *)

\* A raw detection record of the backend: box_2d is <<>> when the field is
\* missing and the array of grid numbers otherwise, in full
\* <<ymin, xmin, ymax, xmax>> on the 0-1000 grid; confidence is <<>> when
\* missing and <<c>> otherwise.
RawItem(box, conf) == [box_2d |-> box, confidence |-> conf]

Missing == <<>>

\* undefined / 1000
NaN == "NaN"

\* item.confidence || 0.85
ConfidenceOrDefault(item) ==
    IF item.confidence = <<>> \/ item.confidence[1] = 0
    THEN 85
    ELSE item.confidence[1]

\* box[k] / 1000 : a grid coordinate as a normalised coordinate
GridToUnit(v) == (v * UnitOne) \div 1000

\* box[k] / 1000 for k = 0..3 (here 1..4); an index past the end of the
\* array reads undefined
GridAt(box, k) == IF k \in DOMAIN box THEN GridToUnit(box[k]) ELSE NaN

\* faulty variant of GeminiAnnotation: box_2d read as [xmin, ymin, xmax, ymax]
GeminiAnnotationTransposed(item, index, t, prompt) ==
    [ id         |-> <<"gemini", t, index>>,
      conceptId  |-> prompt,
      box        |-> [ xmin |-> GridAt(item.box_2d, 1),
                       ymin |-> GridAt(item.box_2d, 2),
                       xmax |-> GridAt(item.box_2d, 3),
                       ymax |-> GridAt(item.box_2d, 4) ],
      type       |-> Undefined,
      points     |-> <<>>,
      confidence |-> ConfidenceOrDefault(item),
      isVerified |-> FALSE ]

\* faulty variant of GeminiAnnotation: verified at birth the way the
\* simulator does it
GeminiAnnotationAutoVerified(item, index, t, prompt) ==
    [ id         |-> <<"gemini", t, index>>,
      conceptId  |-> prompt,
      box        |-> [ ymin |-> GridAt(item.box_2d, 1),
                       xmin |-> GridAt(item.box_2d, 2),
                       ymax |-> GridAt(item.box_2d, 3),
                       xmax |-> GridAt(item.box_2d, 4) ],
      type       |-> Undefined,
      points     |-> <<>>,
      confidence |-> ConfidenceOrDefault(item),
      isVerified |-> ConfidenceOrDefault(item) > 85 ]

\* faulty variant of GeminiAnnotation: the id is the clock value alone
GeminiAnnotationClockId(item, index, t, prompt) ==
    [ id         |-> <<"gemini", t, 0>>,
      conceptId  |-> prompt,
      box        |-> [ ymin |-> GridAt(item.box_2d, 1),
                       xmin |-> GridAt(item.box_2d, 2),
                       ymax |-> GridAt(item.box_2d, 3),
                       xmax |-> GridAt(item.box_2d, 4) ],
      type       |-> Undefined,
      points     |-> <<>>,
      confidence |-> ConfidenceOrDefault(item),
      isVerified |-> FALSE ]

\* the callback of data.map: one raw record to one Annotation
GeminiAnnotation(item, index, t, prompt) ==
    [ id         |-> <<"gemini", t, index>>,
      conceptId  |-> prompt,
      box        |-> [ ymin |-> GridAt(item.box_2d, 1),
                       xmin |-> GridAt(item.box_2d, 2),
                       ymax |-> GridAt(item.box_2d, 3),
                       xmax |-> GridAt(item.box_2d, 4) ],
      type       |-> Undefined,
      points     |-> <<>>,
      confidence |-> ConfidenceOrDefault(item),
      isVerified |-> FALSE ]

\* detectObjects.  response.kind is "throw" (the request or JSON.parse
\* throws), "notext" (response.text is empty), "notarray" (the JSON is no
\* array, so data.map throws) or "json" with response.data the parsed array;
\* ts[i] is the reading of Date.now() for record i.
detectObjects(apiKey, response, ts, prompt) ==
    IF ~apiKey THEN <<>>
    ELSE IF response.kind # "json" THEN <<>>
    ELSE IF \E i \in DOMAIN response.data : response.data[i].box_2d = Missing
         THEN <<>>   \* box[0] of undefined throws; the catch returns []
    ELSE [i \in DOMAIN response.data |->
              GeminiAnnotation(response.data[i], i - 1, ts[i], prompt)]

\* Math.floor(Math.random() * 5) + 2, the random number r in 1/1000
MockCount(r) == ((r * 5) \div 1000) + 2

\* one pass of the loop of mockSAM3Detect; r holds the five random numbers
\* (in 1/1000) that decide width, height, x, y and conf
MockAnnotation(concept, i, t, r) ==
    LET width  == ((r.w * 2000) \div 1000) + 500      \* random * 0.2 + 0.05
        height == ((r.h * 3000) \div 1000) + 1000     \* random * 0.3 + 0.1
        x      == (r.x * (UnitOne - width)) \div 1000  \* random * (1 - width)
        y      == (r.y * (UnitOne - height)) \div 1000
        conf   == ((r.c * 40) \div 1000) + 60
    IN  [ id         |-> <<"sam3", t, i>>,
          conceptId  |-> concept,
          box        |-> [ ymin |-> y, xmin |-> x,
                           ymax |-> y + height, xmax |-> x + width ],
          type       |-> Undefined,
          points     |-> <<>>,
          confidence |-> conf,
          isVerified |-> conf > 85 ]

\* mockSAM3Detect; rc is the random number that decides count, rs[i] the
\* random numbers and ts[i] the reading of Date.now() of pass i
mockSAM3Detect(concept, rc, ts, rs) ==
    [i \in 1..MockCount(rc) |-> MockAnnotation(concept, i - 1, ts[i], rs[i])]

-----------------------------------------------------------------------------
(* src/App.tsx : the store *)

PaletteLen == 7    \* COLORS.length

\* DEMO_IMAGE and the data URL the file reader hands to setImageSrc
DemoImage == "demo"
Uploaded == "upload"

SAM3 == "SAM3"
GEMINI == "GEMINI"

Mean(batch) ==
    [num |-> SumSeq([i \in DOMAIN batch |-> batch[i].confidence]),
     den |-> Len(batch)]

FloorScore == [num |-> 10, den |-> 1]      \* presenceScore = 0.1

\* the synchronous part of handleConceptSubmit, up to its first await: what
\* the suspended call keeps in its closure
NewRequest(raw) ==
    [ id    |-> DeriveId(raw),
      name  |-> Trim(raw),
      color |-> Len(concepts) % PaletteLen,
      model |-> activeModel,
      image |-> imageSrc ]

\* newConcept as it is when handleConceptSubmit appends it
NewConcept(req, newAnnotations) ==
    [ id            |-> req.id,
      name          |-> req.name,
      color         |-> req.color,
      presenceScore |-> IF Len(newAnnotations) > 0
                        THEN Mean(newAnnotations)
                        ELSE FloorScore,
      instanceCount |-> Len(newAnnotations),
      isVisible     |-> TRUE ]

\* faulty variant of Remap: the batch keeps the prompt as conceptId
RemapNone(detected, newConceptId) == detected

\* detected.map(a => ({...a, conceptId: newConceptId}))
Remap(detected, newConceptId) ==
    [i \in DOMAIN detected |-> [detected[i] EXCEPT !.conceptId = newConceptId]]

HasConcept(id) == \E i \in DOMAIN concepts : concepts[i].id = id

\* handleConceptSubmit, from the submit event to the first await
HandleConceptSubmit(raw) ==
    IF Trim(raw) = <<>> \/ HasConcept(DeriveId(raw))
    THEN UNCHANGED vars          \* blank input, or the duplicate guard
    ELSE /\ Len(concepts) + Len(pending) < MaxConcepts
         /\ isProcessing' = TRUE
         /\ pending' = Append(pending, NewRequest(raw))
         /\ UNCHANGED <<concepts, annotations, activeModel, imageSrc, playbackVars>>
         /\ UNCHANGED canvasVars

RemoveAt(s, i) == SubSeq(s, 1, i - 1) \o SubSeq(s, i + 1, Len(s))

\* handleConceptSubmit, from the return of the detection call to the end
FinishSubmit(i, newAnnotations) ==
    /\ concepts' = Append(concepts, NewConcept(pending[i], newAnnotations))
    /\ annotations' = annotations \o newAnnotations
    /\ isProcessing' = FALSE
    /\ pending' = RemoveAt(pending, i)
    /\ UNCHANGED <<activeModel, imageSrc, playbackVars>>
    /\ UNCHANGED canvasVars

\* the GEMINI branch: getBase64FromUrl or detectObjects throwing is caught
\* and leaves newAnnotations empty
ResolveGemini(i, apiKey, response, ts) ==
    /\ i \in DOMAIN pending
    /\ pending[i].model = GEMINI
    /\ FinishSubmit(i, Remap(detectObjects(apiKey, response, ts, pending[i].name),
                             pending[i].id))

\* the SAM3 branch, after the mock delay
ResolveMock(i, rc, ts, rs) ==
    /\ i \in DOMAIN pending
    /\ pending[i].model = SAM3
    /\ FinishSubmit(i, mockSAM3Detect(pending[i].id, rc, ts, rs))

SetActiveModel(m) ==
    /\ activeModel' = m
    /\ UNCHANGED <<concepts, annotations, isProcessing, pending, imageSrc, playbackVars>>
    /\ UNCHANGED canvasVars

\* handleFileUpload, once the reader has loaded the file
HandleFileUpload ==
    /\ imageSrc' = Uploaded
    /\ annotations' = <<>>
    /\ concepts' = <<>>
    /\ activeModel' = GEMINI
    /\ UNCHANGED <<isProcessing, pending, playbackVars>>
    /\ UNCHANGED canvasVars

toggleVisibilityUpdate(prev, id) ==
    [i \in DOMAIN prev |->
        IF prev[i].id = id
        THEN [prev[i] EXCEPT !.isVisible = ~prev[i].isVisible]
        ELSE prev[i]]

toggleVisibility(id) ==
    /\ concepts' = toggleVisibilityUpdate(concepts, id)
    /\ UNCHANGED <<annotations, isProcessing, activeModel, imageSrc, playbackVars, pending>>
    /\ UNCHANGED canvasVars

deleteConceptConcepts(prev, id) == SelectSeq(prev, LAMBDA c : c.id # id)

\* faulty variant of deleteConceptAnnotations: no cascade
deleteConceptAnnotationsNone(prev, id) == prev

deleteConceptAnnotations(prev, id) ==
    SelectSeq(prev, LAMBDA a : a.conceptId # id)

deleteConcept(id) ==
    /\ concepts' = deleteConceptConcepts(concepts, id)
    /\ annotations' = deleteConceptAnnotations(annotations, id)
    /\ UNCHANGED <<isProcessing, activeModel, imageSrc, playbackVars, pending>>
    /\ UNCHANGED canvasVars

\* faulty variant of verifyMaskUpdate: isVerified is flipped
verifyMaskUpdateToggle(prev, id) ==
    [i \in DOMAIN prev |->
        IF prev[i].id = id
        THEN [prev[i] EXCEPT !.isVerified = ~prev[i].isVerified]
        ELSE prev[i]]

\* faulty variant of verifyMaskUpdate: isVerified: a.id === id on every entry
verifyMaskUpdateOnly(prev, id) ==
    [i \in DOMAIN prev |-> [prev[i] EXCEPT !.isVerified = (prev[i].id = id)]]

verifyMaskUpdate(prev, id) ==
    [i \in DOMAIN prev |->
        IF prev[i].id = id
        THEN [prev[i] EXCEPT !.isVerified = TRUE]
        ELSE prev[i]]

verifyMask(id) ==
    /\ annotations' = verifyMaskUpdate(annotations, id)
    /\ UNCHANGED <<concepts, isProcessing, activeModel, imageSrc, playbackVars, pending>>
    /\ UNCHANGED canvasVars

\* faulty variant of rejectMaskAnnotations: splice(findIndex(...), 1), which
\* takes the last entry away when nothing matches
rejectMaskAnnotationsSplice(prev, id) ==
    IF \E i \in DOMAIN prev : prev[i].id = id
    THEN SelectSeq(prev, LAMBDA a : a.id # id)
    ELSE SubSeq(prev, 1, Len(prev) - 1)

rejectMaskAnnotations(prev, id) == SelectSeq(prev, LAMBDA a : a.id # id)

\* annotations.find(a => a.id === id)?.conceptId, on the rendered list
FindConceptId(anns, id) ==
    IF \E i \in DOMAIN anns : anns[i].id = id
    THEN anns[CHOOSE i \in DOMAIN anns :
                 /\ anns[i].id = id
                 /\ \A j \in 1..(i - 1) : anns[j].id # id].conceptId
    ELSE NoId

\* faulty variant of rejectMaskConcepts: the score is recomputed as the mean
\* confidence of the remaining annotations
rejectMaskConceptsRescore(prev, anns, id) ==
    [i \in DOMAIN prev |->
        LET rest == SelectSeq(anns,
                       LAMBDA a : a.conceptId = prev[i].id /\ a.id # id)
        IN  IF prev[i].id = FindConceptId(anns, id)
            THEN [prev[i] EXCEPT
                    !.instanceCount = Len(rest),
                    !.presenceScore = IF Len(rest) > 0 THEN Mean(rest)
                                                       ELSE FloorScore]
            ELSE prev[i]]

\* the updater rejectMask hands to setConcepts; anns is the annotation list
\* of the render whose handler is running
rejectMaskConcepts(prev, anns, id) ==
    [i \in DOMAIN prev |->
        LET remaining ==
              Len(SelectSeq(anns,
                    LAMBDA a : a.conceptId = prev[i].id /\ a.id # id))
        IN  IF prev[i].id = FindConceptId(anns, id)
            THEN [prev[i] EXCEPT !.instanceCount = remaining]
            ELSE prev[i]]

rejectMask(id) ==
    /\ annotations' = rejectMaskAnnotations(annotations, id)
    /\ concepts' = rejectMaskConcepts(concepts, annotations, id)
    /\ UNCHANGED <<isProcessing, activeModel, imageSrc, playbackVars, pending>>
    /\ UNCHANGED canvasVars

-----------------------------------------------------------------------------
(* src/App.tsx : playback.  Times are integers in units of 0.1, so the    *)
(* step 0.2 is 2 and the duration 100 is 1000.                            *)

InitialTime == 200     \* useState(20)
TickStep == 2          \* prev + 0.2
Duration == 1000       \* prev >= 100, duration={100}

\* the updater the interval hands to setCurrentTime
NextTime(prev) == IF prev >= Duration THEN 0 ELSE prev + TickStep

\* one firing of the 50 ms interval that runs while isPlaying
Tick ==
    /\ isPlaying
    /\ currentTime' = NextTime(currentTime)
    /\ UNCHANGED isPlaying
    /\ UNCHANGED <<concepts, annotations, isProcessing, activeModel, imageSrc,
                   pending>>
    /\ UNCHANGED canvasVars

\* onPlayPause
PlayPause ==
    /\ isPlaying' = ~isPlaying
    /\ UNCHANGED currentTime
    /\ UNCHANGED <<concepts, annotations, isProcessing, activeModel, imageSrc,
                   pending>>
    /\ UNCHANGED canvasVars

\* onSeek(pct): a click on a lane of the timeline
Seek(pct) ==
    /\ currentTime' = pct
    /\ UNCHANGED isPlaying
    /\ UNCHANGED <<concepts, annotations, isProcessing, activeModel, imageSrc,
                   pending>>
    /\ UNCHANGED canvasVars

-----------------------------------------------------------------------------
(* The store operations behind the canvas and ledger props selectedTool,  *)
(* activeConceptId, onSelectConcept and onAddAnnotation.  The App that    *)
(* passes them is not among the sources; they follow spec.md 4.3 and 4.4. *)

\* running mean of a concept's score including one more confidence
RunningMean(c, confidence) ==
    [num |-> c.presenceScore.num * c.instanceCount
               + confidence * c.presenceScore.den,
     den |-> c.presenceScore.den * (c.instanceCount + 1)]

ManualCount == Cardinality({i \in DOMAIN annotations :
                               annotations[i].id[1] = "manual"})

\* addSingleAnnotation(partial): confidence 1.0, verified at once, the
\* owning concept's count and score updated; unknown concept: no effect
addSingleAnnotation(partial, t) ==
    IF ~HasConcept(partial.conceptId)
    THEN UNCHANGED <<concepts, annotations>>
    ELSE /\ ManualCount < MaxManual
         /\ annotations' = Append(annotations,
              [ id         |-> <<"manual", t, Len(annotations)>>,
                conceptId  |-> partial.conceptId,
                box        |-> partial.box,
                type       |-> partial.type,
                points     |-> partial.points,
                confidence |-> 100,
                isVerified |-> TRUE ])
         /\ concepts' = [i \in DOMAIN concepts |->
              IF concepts[i].id = partial.conceptId
              THEN [concepts[i] EXCEPT
                      !.instanceCount = concepts[i].instanceCount + 1,
                      !.presenceScore = RunningMean(concepts[i], 100)]
              ELSE concepts[i]]

\* the browser sends dblclick at once after the second click in place:
\* no other pointer event comes between them
NoDblclickDue == pointer.clicks # 2

\* the pointer is taken off the canvas to reach the toolbar or the ledger
PointerAway == [pointer EXCEPT !.armed = FALSE, !.clicks = 0, !.down = FALSE]

\* the toolbar sets the tool
SetSelectedTool(tool) ==
    /\ NoDblclickDue
    /\ selectedTool' = tool
    /\ pointer' = PointerAway
    /\ hoveredId' = NoId        \* onMouseLeave on the way to the toolbar
    /\ UNCHANGED <<activeConceptId, isDrawing, currentPoints>>
    /\ UNCHANGED storeVars

\* onSelectConcept(concept.id) of a row of the ledger
SelectConcept(id) ==
    /\ NoDblclickDue
    /\ HasConcept(id)
    /\ activeConceptId' = id
    /\ pointer' = PointerAway
    /\ hoveredId' = NoId        \* onMouseLeave on the way to the ledger
    /\ UNCHANGED <<selectedTool, isDrawing, currentPoints>>
    /\ UNCHANGED storeVars

-----------------------------------------------------------------------------
(* src/unnamed/part_002, second SemanticCanvas: the drawing gestures *)

Clamp01(v) == Max2(0, Min2(UnitOne, v))

\* getRelativeCoords; p is (clientX - rect.left) / rect.width and the like
\* for y, before clamping
getRelativeCoords(p) == [x |-> Clamp01(p.x), y |-> Clamp01(p.y)]

\* faulty variant of PointBox: the square hangs from the click as its corner
PointBoxCorner(coords) ==
    [ xmin |-> coords.x, ymin |-> coords.y,
      xmax |-> coords.x + 200, ymax |-> coords.y + 200 ]

\* the box of the point tool
PointBox(coords) ==
    [ xmin |-> coords.x - 100, ymin |-> coords.y - 100,
      xmax |-> coords.x + 100, ymax |-> coords.y + 100 ]

\* faulty variant of DragBox: the start point taken as the minimum corner
DragBoxUnordered(start, end) ==
    [ xmin |-> start.x, ymin |-> start.y, xmax |-> end.x, ymax |-> end.y ]

\* the box handleMouseUp builds from the two current points
DragBox(start, end) ==
    [ xmin |-> Min2(start.x, end.x), ymin |-> Min2(start.y, end.y),
      xmax |-> Max2(start.x, end.x), ymax |-> Max2(start.y, end.y) ]

\* faulty variant of BigEnough: one long side is enough
BigEnoughEither(box) == box.xmax - box.xmin > 100 \/ box.ymax - box.ymin > 100

\* "Prevent tiny boxes"
BigEnough(box) == box.xmax - box.xmin > 100 /\ box.ymax - box.ymin > 100

\* the box handleDoubleClick builds from the polygon's points
PolygonBox(pts) ==
    [ xmin |-> MinOf([i \in DOMAIN pts |-> pts[i].x]),
      ymin |-> MinOf([i \in DOMAIN pts |-> pts[i].y]),
      xmax |-> MaxOf([i \in DOMAIN pts |-> pts[i].x]),
      ymax |-> MaxOf([i \in DOMAIN pts |-> pts[i].y]) ]

\* faulty variant of DownIgnored: the active concept is not looked at
DownIgnoredSelectOnly == selectedTool = "select"

\* the early return of handleMouseDown
DownIgnored == selectedTool = "select" \/ activeConceptId = NoId

handleMouseDown(t) ==
    /\ ~pointer.down
    /\ NoDblclickDue
    /\ pointer' = [pointer EXCEPT !.armed = TRUE, !.down = TRUE]
    /\ UNCHANGED <<selectedTool, activeConceptId, hoveredId>>
    /\ UNCHANGED <<isProcessing, activeModel, imageSrc, playbackVars, pending>>
    /\ IF DownIgnored
       THEN UNCHANGED <<isDrawing, currentPoints, concepts, annotations>>
       ELSE LET coords == getRelativeCoords(pointer.pos)
            IN  CASE selectedTool = "box" ->
                       /\ isDrawing' = TRUE
                       /\ currentPoints' = <<coords, coords>>
                       /\ UNCHANGED <<concepts, annotations>>
                  [] selectedTool = "point" ->
                       /\ addSingleAnnotation(
                            [ type      |-> "point",
                              points    |-> <<coords>>,
                              box       |-> PointBox(coords),
                              conceptId |-> activeConceptId ], t)
                       /\ isDrawing' = FALSE
                       /\ UNCHANGED currentPoints
                  [] selectedTool = "polygon" ->
                       /\ Len(currentPoints) < MaxPoly
                       /\ ManualCount < MaxManual
                       /\ isDrawing' = TRUE
                       /\ currentPoints' = Append(currentPoints, coords)
                       /\ UNCHANGED <<concepts, annotations>>

\* concepts.find(c => c.id === id || c.name === id)
getConcept(id) ==
    IF \E i \in DOMAIN concepts : concepts[i].id = id \/ concepts[i].name = id
    THEN <<concepts[CHOOSE i \in DOMAIN concepts :
              /\ concepts[i].id = id \/ concepts[i].name = id
              /\ \A j \in 1..(i - 1) :
                    concepts[j].id # id /\ concepts[j].name # id]>>
    ELSE <<>>

\* the interactive layer renders a div for annotation a
Rendered(a) ==
    /\ selectedTool = "select"
    /\ getConcept(a.conceptId) # <<>>
    /\ getConcept(a.conceptId)[1].isVisible

\* the div of annotation a, placed by left, top, width and height, covers p
Covers(a, p) ==
    /\ a.box.xmin <= p.x /\ p.x < a.box.xmax
    /\ a.box.ymin <= p.y /\ p.y < a.box.ymax

\* the divs under p, in document order; the last one is painted on top and
\* receives the pointer
Hits(p) == {i \in DOMAIN annotations :
              Rendered(annotations[i]) /\ Covers(annotations[i], p)}

\* the id that onMouseEnter stores when the pointer comes to p, null when
\* no div is under it
HitId(p) ==
    IF Hits(p) = {} THEN NoId
    ELSE annotations[CHOOSE i \in Hits(p) : \A j \in Hits(p) : j <= i].id

\* the pointer moves to p; handleMouseMove runs
handleMouseMove(p) ==
    /\ p # pointer.pos
    /\ NoDblclickDue
    /\ pointer' = [pos |-> p, armed |-> FALSE, clicks |-> 0,
                   down |-> pointer.down]
    /\ UNCHANGED <<selectedTool, activeConceptId, isDrawing>>
    /\ UNCHANGED storeVars
    /\ IF isDrawing /\ selectedTool = "box" /\ currentPoints # <<>>
       THEN currentPoints' = <<currentPoints[1], getRelativeCoords(p)>>
       ELSE UNCHANGED currentPoints
    /\ IF selectedTool = "select"
       THEN hoveredId' = HitId(p)    \* onMouseLeave, then onMouseEnter
       ELSE UNCHANGED hoveredId      \* the interactive layer is not rendered

\* a click is a press and a release with no move between them
ClicksAfterUp == IF pointer.armed THEN pointer.clicks + 1 ELSE 0

handleMouseUp(t) ==
    /\ pointer.down
    /\ pointer' = [pointer EXCEPT !.armed = FALSE, !.clicks = ClicksAfterUp,
                                  !.down = FALSE]
    /\ UNCHANGED <<selectedTool, activeConceptId, hoveredId>>
    /\ UNCHANGED <<isProcessing, activeModel, imageSrc, playbackVars, pending>>
    /\ IF ~isDrawing \/ selectedTool = "select" \/ activeConceptId = NoId
       THEN UNCHANGED <<isDrawing, currentPoints, concepts, annotations>>
       ELSE IF selectedTool # "box"
       THEN UNCHANGED <<isDrawing, currentPoints, concepts, annotations>>
       ELSE IF Len(currentPoints) < 2
       THEN \* end is undefined: end.x throws and no update is made
            UNCHANGED <<isDrawing, currentPoints, concepts, annotations>>
       ELSE LET box == DragBox(currentPoints[1], currentPoints[2])
            IN  /\ IF BigEnough(box)
                   THEN addSingleAnnotation(
                            [ type      |-> "box",
                              points    |-> <<>>,
                              box       |-> box,
                              conceptId |-> activeConceptId ], t)
                   ELSE UNCHANGED <<concepts, annotations>>
                /\ isDrawing' = FALSE
                /\ currentPoints' = <<>>

\* the browser sends dblclick after the second of two clicks in place
handleDoubleClick(t) ==
    /\ pointer.clicks = 2
    /\ pointer' = [pointer EXCEPT !.clicks = 0]
    /\ UNCHANGED <<selectedTool, activeConceptId, hoveredId>>
    /\ UNCHANGED <<isProcessing, activeModel, imageSrc, playbackVars, pending>>
    /\ IF selectedTool = "polygon" /\ activeConceptId # NoId
            /\ Len(currentPoints) >= 3
       THEN /\ addSingleAnnotation(
                 [ type      |-> "polygon",
                   points    |-> currentPoints,
                   box       |-> PolygonBox(currentPoints),
                   conceptId |-> activeConceptId ], t)
            /\ isDrawing' = FALSE
            /\ currentPoints' = <<>>
       ELSE UNCHANGED <<isDrawing, currentPoints, concepts, annotations>>

-----------------------------------------------------------------------------
(* What the rendered page lets the user do *)

\* the tooltip of annotation a shows the verify and reject buttons
ButtonsShown(a) ==
    /\ selectedTool = "select"
    /\ getConcept(a.conceptId) # <<>>
    /\ getConcept(a.conceptId)[1].isVisible
    /\ ~a.isVerified

ClickVerify(i) == ButtonsShown(annotations[i]) /\ verifyMask(annotations[i].id)

ClickReject(i) == ButtonsShown(annotations[i]) /\ rejectMask(annotations[i].id)

ClickToggle(i) == toggleVisibility(concepts[i].id)

\* App: useState(false); the spatial overlay stays switched off
showSpatialOverlay == FALSE

\* the tooltip of annotation a is rendered
TooltipShown(a) == Rendered(a) /\ hoveredId = a.id /\ ~showSpatialOverlay

\* the tooltip of annotation a holds the verify button
VerifyOffered(a) == TooltipShown(a) /\ ~a.isVerified

\* the tooltip of annotation a holds the reject button: it is in the same
\* !ann.isVerified block as the verify button
RejectOffered(a) == TooltipShown(a) /\ ~a.isVerified

\* a click on the verify button of the tooltip
ClickVerifyHovered(i) ==
    VerifyOffered(annotations[i]) /\ verifyMask(annotations[i].id)

\* a click on the reject button of the tooltip; the div goes away under
\* the pointer, with no onMouseLeave
ClickRejectHovered(i) ==
    RejectOffered(annotations[i]) /\ rejectMask(annotations[i].id)

\* the browser finds another div under the resting pointer after the
\* layer was rendered anew, and sends onMouseLeave and onMouseEnter
HoverRetarget ==
    /\ selectedTool = "select"
    /\ NoDblclickDue
    /\ hoveredId # HitId(pointer.pos)
    /\ hoveredId' = HitId(pointer.pos)
    /\ UNCHANGED <<pointer, selectedTool, activeConceptId, isDrawing,
                   currentPoints>>
    /\ UNCHANGED storeVars

ClickDelete(i) == deleteConcept(concepts[i].id)

-----------------------------------------------------------------------------
(* Inputs *)

\* the readings of Date.now()
Clock == 1..MaxClock

\* Date.now() over the n passes of one loop: the same reading throughout
Stamps(n) == {[i \in 1..n |-> t] : t \in Clock}

Pt(x, y) == [x |-> x, y |-> y]

Failure == [kind |-> "throw", data |-> <<>>]
NoText == [kind |-> "notext", data |-> <<>>]
NotArray == [kind |-> "notarray", data |-> <<>>]
Json(data) == [kind |-> "json", data |-> data]

Rand(w, h, x, y, c) == [w |-> w, h |-> h, x |-> x, y |-> y, c |-> c]

\* Store specification: two raw names with the same derived id, one with
\* another id, one blank
StoreNames == { <<"A">>, <<" ", "A", " ">>, <<"a", " ", " ", "B">>, <<" ">> }

\* the backend fails, or answers with no or one detection
StoreResponses ==
    { Failure, Json(<<>>), Json(<<RawItem(<<100, 200, 400, 600>>, <<77>>)>>) }

\* the simulator draws count 2, confidences 0.6 and 0.9
StoreRandCounts == {0}
StoreRands(n) ==
    {[i \in 1..n |-> Rand(500, 500, 500, 500, IF i = 1 THEN 0 ELSE 750)]}

\* Detection specification: two names; the backend call fails, answers
\* with no text, with text that is no JSON array, with an empty array, with
\* one record, with two records the second of confidence 1.0, with a
\* record that has no box_2d, with a record whose box_2d has two numbers,
\* with a record that has no confidence and with a record of confidence 0
DetectNames == { <<"A">>, <<"B">> }
DetectResponses ==
    { Failure, NoText, NotArray, Json(<<>>),
      Json(<<RawItem(<<100, 200, 400, 600>>, <<77>>)>>),
      Json(<<RawItem(<<100, 200, 400, 600>>, <<77>>),
             RawItem(<<500, 100, 900, 300>>, <<100>>)>>),
      Json(<<RawItem(Missing, <<90>>)>>),
      Json(<<RawItem(<<100, 200>>, <<90>>)>>),
      Json(<<RawItem(<<100, 200, 400, 600>>, <<>>)>>),
      Json(<<RawItem(<<100, 200, 400, 600>>, <<0>>)>>) }

\* Hover specification: two names; each simulated batch holds a box over
\* (0,0)-(0.15,0.25) of confidence 0.6 and, after it, a box over
\* (0,0)-(0.05,0.1) of confidence 0.9; the pointer rests at (0.02,0.02)
\* inside both, at (0.1,0.1) inside the first only, and at (0.8,0.8)
HoverNames == { <<"A">>, <<"B">> }
HoverRands ==
    {[i \in 1..2 |-> IF i = 1 THEN Rand(500, 500, 0, 0, 0)
                               ELSE Rand(0, 0, 0, 0, 750)]}
HoverPositions == { Pt(200, 200), Pt(1000, 1000), Pt(8000, 8000) }

\* Handler specification: two names, the simulated batch of the hover
\* specification; the handlers are called with every id of the store and
\* with an annotation-like and a concept-like id that nothing carries
ApiNames == { <<"A">>, <<"B">> }
UnknownIds == { <<"sam3", 0, 9>>, <<"z">> }
StoreIds ==
    {concepts[i].id : i \in DOMAIN concepts}
       \cup {annotations[i].id : i \in DOMAIN annotations}
ApiIds == StoreIds \cup UnknownIds

\* Batch specification: two names; the backend answers with two records,
\* the simulator draws two boxes, and Date.now() may read anything, for
\* each record of a batch on its own
BatchNames == { <<"A">>, <<"B">> }
BatchResponse ==
    Json(<<RawItem(<<100, 200, 400, 600>>, <<77>>),
           RawItem(<<500, 100, 900, 300>>, <<100>>)>>)
BatchStamps == [1..2 -> Clock]

\* Playback specification: clicks on a lane at 0, 50.5, 99.9 and 100
\* percent of its width
SeekValues == {0, 505, 999, 1000}

\* Canvas specification: one name, one simulated batch; pointer positions
\* on the bottom edge of the canvas 0.005 from its left edge, at (0.2,0.2),
\* exactly 0.01 to the right of it at (0.21,0.6), and at (0.5,0.6); the
\* select, box and point tools
CanvasNames == { <<"A">> }
CanvasPositions ==
    { Pt(50, UnitOne), Pt(2000, 2000), Pt(2100, 6000), Pt(5000, 6000) }
CanvasTools == {"select", "box", "point"}

-----------------------------------------------------------------------------
(* The state machine *)

InitWith(positions) ==
    /\ concepts = <<>>
    /\ annotations = <<>>
    /\ isProcessing = FALSE
    /\ activeModel = SAM3
    /\ imageSrc = DemoImage
    /\ pending = <<>>
    /\ pointer \in {[pos |-> p, armed |-> FALSE, clicks |-> 0, down |-> FALSE] :
                      p \in positions}
    /\ selectedTool = "select"
    /\ activeConceptId = NoId
    /\ isDrawing = FALSE
    /\ currentPoints = <<>>
    /\ hoveredId = NoId
    /\ currentTime = InitialTime
    /\ isPlaying = FALSE

\* The store: submissions, detection responses and the ledger and tooltip
\* buttons, with the canvas left in select mode.
Init == InitWith({Pt(2000, 2000)})

Next ==
    \/ \E raw \in StoreNames : HandleConceptSubmit(raw)
    \/ \E i \in DOMAIN pending, apiKey \in BOOLEAN, response \in StoreResponses :
          \E ts \in Stamps(Len(response.data)) :
             ResolveGemini(i, apiKey, response, ts)
    \/ \E i \in DOMAIN pending, rc \in StoreRandCounts :
          \E ts \in Stamps(MockCount(rc)), rs \in StoreRands(MockCount(rc)) :
             ResolveMock(i, rc, ts, rs)
    \/ \E m \in {SAM3, GEMINI} : m # activeModel /\ SetActiveModel(m)
    \/ (concepts # <<>> \/ activeModel # GEMINI \/ imageSrc # Uploaded)
          /\ HandleFileUpload
    \/ \E i \in DOMAIN concepts : ClickToggle(i)
    \/ \E i \in DOMAIN concepts : ClickDelete(i)
    \/ \E i \in DOMAIN annotations : ClickVerify(i)
    \/ \E i \in DOMAIN annotations : ClickReject(i)

Spec == Init /\ [][Next]_vars

\* the detection call of a request for concept id x returns or fails
ResolveOf(x) ==
    \E i \in DOMAIN pending :
       /\ pending[i].id = x
       /\ \/ \E apiKey \in BOOLEAN, response \in StoreResponses :
                \E ts \in Stamps(Len(response.data)) :
                   ResolveGemini(i, apiKey, response, ts)
          \/ \E rc \in StoreRandCounts :
                \E ts \in Stamps(MockCount(rc)), rs \in StoreRands(MockCount(rc)) :
                   ResolveMock(i, rc, ts, rs)

\* the ids the names of the store specification derive
StoreConceptIds == {DeriveId(raw) : raw \in StoreNames} \ {<<>>}

\* The store with every detection call returning in the end: the timer of
\* the simulated delay fires, the promise of the backend call settles.
SpecLive == Spec /\ \A x \in StoreConceptIds : WF_vars(ResolveOf(x))

\* The canvas: the box and point gestures over a store of simulated
\* concepts.
InitCanvas == InitWith(CanvasPositions)

NextCanvas ==
    \/ \E raw \in CanvasNames : HandleConceptSubmit(raw)
    \/ \E i \in DOMAIN pending, rc \in StoreRandCounts :
          \E rs \in StoreRands(MockCount(rc)) :
             ResolveMock(i, rc, [k \in 1..MockCount(rc) |-> 1], rs)
    \/ \E i \in DOMAIN concepts : ClickDelete(i)
    \/ \E tool \in CanvasTools : tool # selectedTool /\ SetSelectedTool(tool)
    \/ \E i \in DOMAIN concepts : SelectConcept(concepts[i].id)
    \/ \E t \in Clock : handleMouseDown(t)
    \/ \E p \in CanvasPositions : handleMouseMove(p)
    \/ \E t \in Clock : handleMouseUp(t)
    \/ \E t \in Clock : handleDoubleClick(t)

SpecCanvas == InitCanvas /\ [][NextCanvas]_vars

\* The polygon tool: the pointer goes round the vertices (0.1,0.1),
\* (0.3,0.1) and (0.2,0.3) over a store of one simulated concept, the tool
\* switched between select and polygon.
PolygonPositions == { Pt(1000, 1000), Pt(3000, 1000), Pt(2000, 3000) }
PolygonTools == {"select", "polygon"}

NextVertex(p) ==
    CASE p = Pt(1000, 1000) -> Pt(3000, 1000)
      [] p = Pt(3000, 1000) -> Pt(2000, 3000)
      [] OTHER -> Pt(1000, 1000)

InitPolygon == InitWith({Pt(1000, 1000)})

NextPolygon ==
    \/ \E raw \in CanvasNames : HandleConceptSubmit(raw)
    \/ \E i \in DOMAIN pending, rc \in StoreRandCounts :
          \E rs \in StoreRands(MockCount(rc)) :
             ResolveMock(i, rc, [k \in 1..MockCount(rc) |-> 1], rs)
    \/ \E tool \in PolygonTools : tool # selectedTool /\ SetSelectedTool(tool)
    \/ \E i \in DOMAIN concepts :
          concepts[i].id # activeConceptId /\ SelectConcept(concepts[i].id)
    \/ handleMouseDown(1)
    \/ handleMouseMove(NextVertex(pointer.pos))
    \/ handleMouseUp(1)
    \/ handleDoubleClick(1)

SpecPolygon == InitPolygon /\ [][NextPolygon]_vars

\* The Gemini path: submissions under the GEMINI model and every kind of
\* backend answer.
InitDetect == InitWith({Pt(2000, 2000)})

NextDetect ==
    \/ \E raw \in DetectNames : activeModel = GEMINI /\ HandleConceptSubmit(raw)
    \/ \E i \in DOMAIN pending, apiKey \in BOOLEAN, response \in DetectResponses :
          \E ts \in Stamps(Len(response.data)) :
             ResolveGemini(i, apiKey, response, ts)
    \/ activeModel # GEMINI /\ SetActiveModel(GEMINI)
    \/ \E i \in DOMAIN concepts : ClickDelete(i)

SpecDetect == InitDetect /\ [][NextDetect]_vars

\* The select tool: hovering, the tooltip buttons and the eye button of
\* the ledger over two simulated concepts.
InitHover == InitWith({Pt(8000, 8000)})

NextHover ==
    \/ \E raw \in HoverNames : HandleConceptSubmit(raw)
    \/ \E i \in DOMAIN pending, rs \in HoverRands, ts \in Stamps(2) :
          ResolveMock(i, 0, ts, rs)
    \/ \E p \in HoverPositions : handleMouseMove(p)
    \/ HoverRetarget
    \/ \E i \in DOMAIN concepts : ClickToggle(i)
    \/ \E i \in DOMAIN annotations : ClickVerifyHovered(i)
    \/ \E i \in DOMAIN annotations : ClickRejectHovered(i)

SpecHover == InitHover /\ [][NextHover]_vars

\* The four handlers App passes down, called with known and unknown ids.
InitApi == InitWith({Pt(8000, 8000)})

NextApi ==
    \/ \E raw \in ApiNames : HandleConceptSubmit(raw)
    \/ \E i \in DOMAIN pending, rs \in HoverRands, ts \in Stamps(2) :
          ResolveMock(i, 0, ts, rs)
    \/ \E id \in ApiIds : toggleVisibility(id)
    \/ \E id \in ApiIds : deleteConcept(id)
    \/ \E id \in ApiIds : verifyMask(id)
    \/ \E id \in ApiIds : rejectMask(id)

SpecApi == InitApi /\ [][NextApi]_vars

\* Batches of both detectors under a clock that may move in any way.
InitBatch == InitWith({Pt(8000, 8000)})

NextBatch ==
    \/ \E raw \in BatchNames : HandleConceptSubmit(raw)
    \/ \E m \in {SAM3, GEMINI} : m # activeModel /\ SetActiveModel(m)
    \/ \E i \in DOMAIN pending, ts \in BatchStamps :
          ResolveGemini(i, TRUE, BatchResponse, ts)
    \/ \E i \in DOMAIN pending, rs \in HoverRands, ts \in BatchStamps :
          ResolveMock(i, 0, ts, rs)
    \/ \E i \in DOMAIN concepts : ClickDelete(i)

SpecBatch == InitBatch /\ [][NextBatch]_vars

\* Playback: the play button, the interval and seeking on the timeline.
InitPlayback == InitWith({Pt(8000, 8000)})

NextPlayback ==
    \/ PlayPause
    \/ Tick
    \/ \E pct \in SeekValues : pct # currentTime /\ Seek(pct)

SpecPlayback == InitPlayback /\ [][NextPlayback]_vars

-----------------------------------------------------------------------------
(* Properties *)

\* the elements of s at the indices in keep, in their order
RECURSIVE Subseq(_, _)
Subseq(s, keep) ==
    IF s = <<>> THEN <<>>
    ELSE LET front == Subseq(SubSeq(s, 1, Len(s) - 1), keep)
         IN  IF Len(s) \in keep THEN Append(front, s[Len(s)]) ELSE front

CountOf(anns, conceptId) ==
    Cardinality({i \in DOMAIN anns : anns[i].conceptId = conceptId})

NoOrphans(cs, anns) ==
    \A i \in DOMAIN anns : \E j \in DOMAIN cs : cs[j].id = anns[i].conceptId

\* C1: in every reachable state each concept's instanceCount is the number
\* of annotations whose conceptId is the concept's id.
C1_InstanceCountMatches ==
    \A i \in DOMAIN concepts :
       concepts[i].instanceCount = CountOf(annotations, concepts[i].id)

\* C2: deleting the concept of a ledger row removes every concept with that
\* id and every annotation of that conceptId, keeps every other concept and
\* annotation unchanged and in order, and leaves no annotation that refers
\* to a concept missing from the list.
C2_DeleteCascades ==
    [][\A i \in DOMAIN concepts :
          ClickDelete(i) =>
             LET id == concepts[i].id
             IN  /\ concepts' = Subseq(concepts,
                       {j \in DOMAIN concepts : concepts[j].id # id})
                 /\ annotations' = Subseq(annotations,
                       {j \in DOMAIN annotations : annotations[j].conceptId # id})
                 /\ \A j \in DOMAIN concepts' : concepts'[j].id # id
                 /\ \A j \in DOMAIN annotations' : annotations'[j].conceptId # id
                 /\ NoOrphans(concepts', annotations')]_vars

\* C2 witness: the only concept left was created second (colour 1) and
\* still has its annotations: an earlier concept was deleted beside it.
C2_Witness ==
    /\ Len(concepts) = 1
    /\ concepts[1].color = 1
    /\ concepts[1].isVisible
    /\ CountOf(annotations, concepts[1].id) = 2
    /\ Len(annotations) = 2

\* C3: rejecting an annotation that is in the store removes exactly that one
\* annotation, lowers the owning concept's instanceCount by exactly one and
\* leaves every other concept's instanceCount as it was.
C3_RejectRemovesOne ==
    [][\A i \in DOMAIN annotations :
          ClickReject(i) =>
             /\ annotations' = Subseq(annotations, DOMAIN annotations \ {i})
             /\ \A j \in DOMAIN concepts :
                   concepts'[j].instanceCount =
                      IF concepts[j].id = annotations[i].conceptId
                      THEN concepts[j].instanceCount - 1
                      ELSE concepts[j].instanceCount]_vars

\* the id the claim derives from each raw name of the store specification
C4_DerivedId(raw) ==
    CASE raw = <<"A">> -> <<"a">>
      [] raw = <<" ", "A", " ">> -> <<"a">>
      [] raw = <<"a", " ", " ", "B">> -> <<"a", "-", "b">>
      [] OTHER -> <<>>

\* C4: submitting a name whose derived id (trimmed, lower-cased, each run
\* of whitespace one hyphen) is the id of a concept in the list changes
\* neither list and starts no detection request.
C4_DuplicateSubmitIsNoOp ==
    [][\A raw \in StoreNames :
          (/\ HandleConceptSubmit(raw)
           /\ \E j \in DOMAIN concepts : concepts[j].id = C4_DerivedId(raw))
          => /\ concepts' = concepts
             /\ annotations' = annotations
             /\ pending' = pending
             /\ isProcessing' = isProcessing]_vars

\* C4 witness: a concept "a" is in the list while a further submission
\* would still be accepted.
C4_Witness ==
    /\ \E j \in DOMAIN concepts : concepts[j].id = <<"a">>
    /\ Len(concepts) + Len(pending) < MaxConcepts
    /\ annotations # <<>>

\* C5: verify sets isVerified on the annotation(s) with the id and changes
\* nothing else (list length and order, the other annotations, the
\* concepts with their instanceCount and presenceScore); verifying again
\* changes nothing.
C5_VerifyIdempotent ==
    [][\A i \in DOMAIN annotations :
          ClickVerify(i) =>
             LET id == annotations[i].id
             IN  /\ Len(annotations') = Len(annotations)
                 /\ \A j \in DOMAIN annotations :
                       annotations'[j] =
                          IF annotations[j].id = id
                          THEN [annotations[j] EXCEPT !.isVerified = TRUE]
                          ELSE annotations[j]
                 /\ concepts' = concepts
                 /\ verifyMaskUpdate(annotations', id) = annotations'
                 /\ verifyMaskUpdate(verifyMaskUpdate(annotations, id), id)
                      = verifyMaskUpdate(annotations, id)]_vars

\* C5 witness: an annotation that was not verified when it was detected
\* (confidence at most 0.85) is verified.
C5_Witness ==
    \E i \in DOMAIN annotations :
       /\ annotations[i].isVerified
       /\ annotations[i].confidence <= 85
       /\ concepts[1].instanceCount = 2

\* C6: an annotation that is verified stays verified for as long as it is
\* in the store: a step that removes nothing keeps every annotation in
\* place with its id and keeps isVerified where it was true; a step that
\* removes annotations leaves the others exactly as they were.
C6_VerifiedIsOneWay ==
    [][IF Len(annotations') >= Len(annotations)
       THEN \A j \in DOMAIN annotations :
               /\ annotations'[j].id = annotations[j].id
               /\ annotations[j].isVerified => annotations'[j].isVerified
       ELSE \E keep \in SUBSET DOMAIN annotations :
               annotations' = Subseq(annotations, keep)]_vars

\* C6 witness: an annotation verified by the user is in the store while a
\* concept is hidden and two concepts exist.
C6_Witness ==
    /\ Len(concepts) = 2
    /\ \E j \in DOMAIN concepts : ~concepts[j].isVisible
    /\ \E i \in DOMAIN annotations :
          annotations[i].isVerified /\ annotations[i].confidence <= 85

InUnit(v) == 0 <= v /\ v <= UnitOne

\* C7: every annotation in the store, from the detection backend, the
\* simulator or a drawing gesture, has its four box coordinates within
\* [0,1] with xmin <= xmax and ymin <= ymax.
C7_BoxesInUnitSquare ==
    \A i \in DOMAIN annotations :
       LET b == annotations[i].box
       IN  /\ InUnit(b.xmin) /\ InUnit(b.xmax)
           /\ InUnit(b.ymin) /\ InUnit(b.ymax)
           /\ b.xmin <= b.xmax
           /\ b.ymin <= b.ymax

\* the confidences of the annotations of a concept id
ConfidencesOf(anns, conceptId) ==
    LET own == Subseq(anns, {i \in DOMAIN anns : anns[i].conceptId = conceptId})
    IN  [i \in DOMAIN own |-> own[i].confidence]

\* C8: in every reachable state each concept's presenceScore is the mean
\* confidence of the annotations of its id now in the store, or 0.1 when
\* there are none.
C8_PresenceIsMean ==
    \A i \in DOMAIN concepts :
       LET confs == ConfidencesOf(annotations, concepts[i].id)
           score == concepts[i].presenceScore
       IN  IF confs = <<>>
           THEN score.num * 10 = score.den * 1         \* 0.1, in 1/100: 10
           ELSE score.num * Len(confs) = SumSeq(confs) * score.den

BoxGestureReady ==
    /\ selectedTool = "box"
    /\ isDrawing
    /\ Len(currentPoints) = 2
    /\ \E j \in DOMAIN concepts : concepts[j].id = activeConceptId

Width(p, q) == IF p.x <= q.x THEN q.x - p.x ELSE p.x - q.x
Height(p, q) == IF p.y <= q.y THEN q.y - p.y ELSE p.y - q.y

\* the annotation a box gesture from p to q is to commit for the concept
CommittedBox(a, p, q, conceptId) ==
    /\ a.type = "box"
    /\ a.conceptId = conceptId
    /\ a.box.xmin = (IF p.x <= q.x THEN p.x ELSE q.x)
    /\ a.box.xmax = (IF p.x <= q.x THEN q.x ELSE p.x)
    /\ a.box.ymin = (IF p.y <= q.y THEN p.y ELSE q.y)
    /\ a.box.ymax = (IF p.y <= q.y THEN q.y ELSE p.y)
    /\ a.confidence = 100
    /\ a.isVerified

\* C9: in box mode with an active concept, pointer-down records the start
\* point, moving records the end point, and pointer-up on a box with both
\* sides above 0.01 appends exactly one annotation: type box, the active
\* concept, the box min/max of the two points whatever the direction of
\* the drag, confidence 1.0, verified.  (0.2,0.2) to (0.5,0.6) gives
\* {xmin 0.2, ymin 0.2, xmax 0.5, ymax 0.6}.
C9_BoxGestureCommits ==
    [][\A t \in Clock :
          /\ (handleMouseDown(t) /\ selectedTool = "box" /\ activeConceptId # NoId)
             => /\ isDrawing'
                /\ currentPoints' = << [x |-> Clamp01(pointer.pos.x),
                                        y |-> Clamp01(pointer.pos.y)],
                                       [x |-> Clamp01(pointer.pos.x),
                                        y |-> Clamp01(pointer.pos.y)] >>
          /\ (BoxGestureReady /\ pointer' # pointer /\ pointer'.pos # pointer.pos)
             => currentPoints' = << currentPoints[1],
                                    [x |-> Clamp01(pointer'.pos.x),
                                     y |-> Clamp01(pointer'.pos.y)] >>
          /\ (/\ handleMouseUp(t)
              /\ BoxGestureReady
              /\ Width(currentPoints[1], currentPoints[2]) > 100
              /\ Height(currentPoints[1], currentPoints[2]) > 100)
             => /\ Len(annotations') = Len(annotations) + 1
                /\ SubSeq(annotations', 1, Len(annotations)) = annotations
                /\ CommittedBox(annotations'[Len(annotations')],
                                currentPoints[1], currentPoints[2],
                                activeConceptId)
                /\ (currentPoints = <<Pt(2000, 2000), Pt(5000, 6000)>>
                    => annotations'[Len(annotations')].box =
                         [xmin |-> 2000, ymin |-> 2000,
                          xmax |-> 5000, ymax |-> 6000])]_vars

\* C9 witness: the box drawn from (0.2,0.2) to (0.5,0.6), or back, is in
\* the store, verified and with confidence 1.0, and the canvas is idle.
C9_Witness ==
    /\ ~isDrawing
    /\ currentPoints = <<>>
    /\ \E i \in DOMAIN annotations :
          /\ annotations[i].type = "box"
          /\ annotations[i].box = [xmin |-> 2000, ymin |-> 2000,
                                   xmax |-> 5000, ymax |-> 6000]
          /\ annotations[i].confidence = 100
          /\ annotations[i].isVerified
          /\ annotations[i].conceptId = activeConceptId

Committed == Len(annotations') = Len(annotations) + 1

\* C10 as stated: pointer-up of a box drag commits exactly when neither
\* side of the box is below 0.01, and the canvas is idle afterwards with
\* no current points.
C10_CommitsUnlessBelow ==
    [][\A t \in Clock :
          (handleMouseUp(t) /\ BoxGestureReady)
          => /\ Committed <=>
                  (/\ Width(currentPoints[1], currentPoints[2]) >= 100
                   /\ Height(currentPoints[1], currentPoints[2]) >= 100)
             /\ ~isDrawing'
             /\ currentPoints' = <<>>]_vars

\* C10: pointer-up of a box drag whose active concept is in the store
\* commits exactly when both sides of the box exceed 0.01 (a side of
\* exactly 0.01 commits nothing), a drag ending within 0.01 of its start
\* commits nothing, and either way the canvas is idle afterwards with no
\* current points.
C10_CommitsWhenAbove ==
    [][\A t \in Clock :
          (handleMouseUp(t) /\ BoxGestureReady)
          => /\ Committed <=>
                  (/\ Width(currentPoints[1], currentPoints[2]) > 100
                   /\ Height(currentPoints[1], currentPoints[2]) > 100)
             /\ (/\ Width(currentPoints[1], currentPoints[2]) <= 100
                 /\ Height(currentPoints[1], currentPoints[2]) <= 100)
                => annotations' = annotations /\ concepts' = concepts
             /\ ~isDrawing'
             /\ currentPoints' = <<>>]_vars

\* C10 witness: the drag from (0.005,1) to (0.21,0.6) was committed and
\* the canvas is idle.
C10_Witness ==
    /\ ~isDrawing
    /\ currentPoints = <<>>
    /\ selectedTool = "box"
    /\ \E i \in DOMAIN annotations :
          /\ annotations[i].type = "box"
          /\ annotations[i].box = [xmin |-> 50, ymin |-> 6000,
                                   xmax |-> 2100, ymax |-> UnitOne]

ActiveConceptInStore ==
    \E j \in DOMAIN concepts : concepts[j].id = activeConceptId

\* C11: in point mode with an active concept one pointer-down at p appends
\* exactly one annotation, of type point, of the active concept, with
\* points = [p] and the square box of half-side 0.01 centred on p, and
\* leaves isDrawing false; the pointer-up that follows commits nothing.
C11_PointClickCommits ==
    [][\A t \in Clock :
          /\ (/\ handleMouseDown(t)
              /\ selectedTool = "point"
              /\ ActiveConceptInStore)
             => LET p == pointer.pos
                    a == annotations'[Len(annotations')]
                IN  /\ Len(annotations') = Len(annotations) + 1
                    /\ SubSeq(annotations', 1, Len(annotations)) = annotations
                    /\ a.type = "point"
                    /\ a.conceptId = activeConceptId
                    /\ a.points = <<[x |-> p.x, y |-> p.y]>>
                    /\ a.box = [xmin |-> p.x - 100, ymin |-> p.y - 100,
                                xmax |-> p.x + 100, ymax |-> p.y + 100]
                    /\ ~isDrawing'
          /\ (handleMouseUp(t) /\ selectedTool = "point")
             => /\ annotations' = annotations
                /\ concepts' = concepts
                /\ ~isDrawing']_vars

\* C11 witness: the point clicked at (0.2,0.2) is in the store with its
\* square box, the point tool is still selected and the button is up again.
C11_Witness ==
    /\ selectedTool = "point"
    /\ ~isDrawing
    /\ ~pointer.armed
    /\ pointer.clicks = 1
    /\ \E i \in DOMAIN annotations :
          /\ annotations[i].type = "point"
          /\ annotations[i].points = <<Pt(2000, 2000)>>
          /\ annotations[i].box = [xmin |-> 1900, ymin |-> 1900,
                                   xmax |-> 2100, ymax |-> 2100]
          /\ annotations[i].conceptId = activeConceptId

\* the vertices clicked before the double-click: the browser sends dblclick
\* after two more presses in place, each of which has added a vertex
ClickedBefore == SubSeq(currentPoints, 1, Len(currentPoints) - 2)

\* C12: in polygon mode with an active concept a double-click after n
\* clicks commits exactly when n >= 3: then one polygon annotation whose
\* points are the clicked vertices in click order and whose box is their
\* min/max, the accumulator cleared and isDrawing false; with fewer than
\* three clicks nothing is committed and the vertices are kept.
C12_DoubleClickCommitsClicked ==
    [][\A t \in Clock :
          (/\ handleDoubleClick(t)
           /\ pointer.clicks = 2
           /\ selectedTool = "polygon"
           /\ ActiveConceptInStore)
          => IF Len(ClickedBefore) >= 3
             THEN LET a == annotations'[Len(annotations')]
                  IN  /\ Len(annotations') = Len(annotations) + 1
                      /\ a.type = "polygon"
                      /\ a.conceptId = activeConceptId
                      /\ a.points = ClickedBefore
                      /\ \A k \in DOMAIN ClickedBefore :
                            /\ a.box.xmin <= ClickedBefore[k].x
                            /\ ClickedBefore[k].x <= a.box.xmax
                            /\ a.box.ymin <= ClickedBefore[k].y
                            /\ ClickedBefore[k].y <= a.box.ymax
                      /\ currentPoints' = <<>>
                      /\ ~isDrawing'
             ELSE /\ annotations' = annotations
                  /\ currentPoints' = currentPoints]_vars

\* C13: a change of the selected tool or of the active concept while a
\* shape is in progress discards the shape: afterwards isDrawing is false
\* and there are no current points.
C13_SwitchDiscardsShape ==
    [][(/\ selectedTool' # selectedTool \/ activeConceptId' # activeConceptId
        /\ isDrawing \/ currentPoints # <<>>)
       => (~isDrawing' /\ currentPoints' = <<>>)]_vars


-----------------------------------------------------------------------------
(* Gemini normalisation *)

\* the annotations a step appends to the store
Appended == SubSeq(annotations', Len(annotations) + 1, Len(annotations'))

\* an answer that parses as an array of records, each with four numbers
WellFormed(response) ==
    /\ response.kind = "json"
    /\ \A k \in DOMAIN response.data :
          /\ response.data[k].box_2d # Missing
          /\ Len(response.data[k].box_2d) = 4

\* C14: with an API key and a well-formed answer, detectObjects yields one
\* annotation per record, in batch order, whose box is
\* {ymin a/1000, xmin b/1000, ymax c/1000, xmax d/1000} for box_2d =
\* [a, b, c, d], not transposed; [100, 200, 400, 600] with confidence 0.77
\* gives {0.1, 0.2, 0.4, 0.6}, confidence 0.77, unverified.
C14_BoxOrderKept ==
    [][\A i \in DOMAIN pending, response \in DetectResponses :
         \A ts \in Stamps(Len(response.data)) :
            (ResolveGemini(i, TRUE, response, ts) /\ WellFormed(response))
            => /\ Len(Appended) = Len(response.data)
               /\ \A k \in DOMAIN response.data :
                     LET b == response.data[k].box_2d
                     IN  Appended[k].box = [ ymin |-> 10 * b[1],
                                             xmin |-> 10 * b[2],
                                             ymax |-> 10 * b[3],
                                             xmax |-> 10 * b[4] ]
               /\ (response.data # <<>>
                     /\ response.data[1] = RawItem(<<100, 200, 400, 600>>, <<77>>))
                  => /\ Appended[1].box = [ ymin |-> 1000, xmin |-> 2000,
                                            ymax |-> 4000, xmax |-> 6000 ]
                     /\ Appended[1].confidence = 77
                     /\ Appended[1].isVerified = FALSE]_vars

\* a two-record batch is in the store in batch order
C14_Witness ==
    \E i \in DOMAIN annotations :
       /\ i + 1 \in DOMAIN annotations
       /\ annotations[i].id[1] = "gemini" /\ annotations[i].id[3] = 0
       /\ annotations[i].box = [ ymin |-> 1000, xmin |-> 2000,
                                 ymax |-> 4000, xmax |-> 6000 ]
       /\ annotations[i].confidence = 77
       /\ annotations[i + 1].id[3] = 1
       /\ annotations[i + 1].box = [ ymin |-> 5000, xmin |-> 1000,
                                     ymax |-> 9000, xmax |-> 3000 ]

\* C15: every annotation detectObjects produces is unverified, whatever its
\* confidence, 1.0 included.
C15_BornUnverified ==
    [][\A i \in DOMAIN pending, apiKey \in BOOLEAN, response \in DetectResponses :
         \A ts \in Stamps(Len(response.data)) :
            ResolveGemini(i, apiKey, response, ts)
            => \A k \in DOMAIN Appended : Appended[k].isVerified = FALSE]_vars

\* a confidence 1.0 detection is in the store, unverified
C15_Witness ==
    \E i \in DOMAIN annotations :
       /\ annotations[i].id[1] = "gemini"
       /\ annotations[i].confidence = 100
       /\ annotations[i].isVerified = FALSE

\* C16: without an API key, or with an answer that is absent, unparseable
\* or holds a malformed record, or when the call fails, detectObjects
\* yields the empty sequence: the request ends with no annotation added.
C16_FailureYieldsEmpty ==
    [][\A i \in DOMAIN pending, apiKey \in BOOLEAN, response \in DetectResponses :
         \A ts \in Stamps(Len(response.data)) :
            (ResolveGemini(i, apiKey, response, ts)
               /\ (~apiKey \/ ~WellFormed(response)))
            => Appended = <<>>]_vars


\* C25: the confidence of a record is carried into the annotation as it
\* is, 0 included; 0.85 is filled in only when the record has none.
C25_ConfidenceCarried ==
    [][\A i \in DOMAIN pending, response \in DetectResponses :
         \A ts \in Stamps(Len(response.data)) :
            (ResolveGemini(i, TRUE, response, ts) /\ WellFormed(response))
            => \A k \in DOMAIN response.data :
                  Appended[k].confidence =
                     IF response.data[k].confidence = <<>>
                     THEN 85
                     ELSE response.data[k].confidence[1]]_vars

-----------------------------------------------------------------------------
(* Hover and the tooltip *)

\* C17: in select mode every annotation shown as hovered has a visible
\* concept and a box that holds the pointer, and is the latest in
\* insertion order of the annotations for which that is so.
C17_HoveredIsTopmost ==
    \A i \in DOMAIN annotations :
       (Rendered(annotations[i]) /\ hoveredId = annotations[i].id)
       => /\ i \in Hits(pointer.pos)
          /\ \A j \in Hits(pointer.pos) : j <= i

\* C18: the tooltip of the hovered annotation offers verify and reject
\* while it is unverified, and reject alone once it is verified.
C18_RejectStaysOffered ==
    \A i \in DOMAIN annotations :
       TooltipShown(annotations[i])
       => /\ VerifyOffered(annotations[i]) <=> ~annotations[i].isVerified
          /\ RejectOffered(annotations[i])


-----------------------------------------------------------------------------
(* Unknown ids *)

\* no concept and no annotation of the store carries the id
Unmatched(id) ==
    /\ \A i \in DOMAIN concepts : concepts[i].id # id
    /\ \A i \in DOMAIN annotations :
          annotations[i].id # id /\ annotations[i].conceptId # id

\* C19: verifyMask, rejectMask, toggleVisibility and deleteConcept called
\* with an id that no annotation and no concept carries leave the concept
\* list and the annotation list as they are.
C19_UnknownIdIsNoOp ==
    [][\A id \in ApiIds :
          (/\ Unmatched(id)
           /\ \/ verifyMask(id)
              \/ rejectMask(id)
              \/ toggleVisibility(id)
              \/ deleteConcept(id))
          => (concepts' = concepts /\ annotations' = annotations)]_vars

\* C19 witness: two concepts, one hidden, and annotations both verified
\* and unverified are in the store, and the unknown ids match none of them.
C19_Witness ==
    /\ Len(concepts) = 2
    /\ \E i \in DOMAIN concepts : ~concepts[i].isVisible
    /\ \E i \in DOMAIN annotations : annotations[i].isVerified
    /\ \E i \in DOMAIN annotations : ~annotations[i].isVerified
    /\ \A id \in UnknownIds : Unmatched(id)


-----------------------------------------------------------------------------
(* The processing flag *)

\* C20: isProcessing is true in exactly the states in which at least one
\* detection request is outstanding, also when submissions overlap.
C20_ProcessingIffOutstanding == isProcessing <=> pending # <<>>


-----------------------------------------------------------------------------
(* Late responses *)

\* the step ends the suspended call i of handleConceptSubmit
Returns(i) == i \in DOMAIN pending /\ pending' = RemoveAt(pending, i)

\* C21: an accepted submission keeps the derived id; once its detection
\* call has returned or failed, one concept with that id is appended at the
\* end of the concept list and its batch, every annotation carrying that
\* id, at the end of the annotation list, whatever happened to the store in
\* between; an empty batch gives instanceCount 0 and presenceScore 0.1; the
\* processing flag is cleared; and every request in flight does return.
C21_LateResponseApplied ==
    /\ [][\A raw \in StoreNames :
            (HandleConceptSubmit(raw) /\ pending' # pending)
            => /\ Trim(raw) # <<>>
               /\ \A j \in DOMAIN concepts : concepts[j].id # C4_DerivedId(raw)
               /\ Len(pending') = Len(pending) + 1
               /\ pending'[Len(pending')].id = C4_DerivedId(raw)]_vars
    /\ [][\A i \in DOMAIN pending :
            Returns(i)
            => /\ Len(concepts') = Len(concepts) + 1
               /\ SubSeq(concepts', 1, Len(concepts)) = concepts
               /\ concepts'[Len(concepts')].id = pending[i].id
               /\ Len(annotations') >= Len(annotations)
               /\ SubSeq(annotations', 1, Len(annotations)) = annotations
               /\ \A k \in (Len(annotations) + 1)..Len(annotations') :
                     annotations'[k].conceptId = pending[i].id
               /\ concepts'[Len(concepts')].instanceCount
                     = Len(annotations') - Len(annotations)
               /\ (Len(annotations') = Len(annotations))
                  => concepts'[Len(concepts')].presenceScore
                        = [num |-> 10, den |-> 1]
               /\ isProcessing' = FALSE]_vars
    /\ \A x \in StoreConceptIds :
          (\E i \in DOMAIN pending : pending[i].id = x)
          ~> (\E j \in DOMAIN concepts : concepts[j].id = x)

\* C21 witness: two requests have returned; the first concept has an empty
\* batch, the second one a batch of the backend, and nothing is in flight.
C21_Witness ==
    /\ Len(concepts) = 2
    /\ concepts[1].instanceCount = 0
    /\ concepts[1].presenceScore = [num |-> 10, den |-> 1]
    /\ concepts[2].instanceCount > 0
    /\ \E k \in DOMAIN annotations :
          annotations[k].conceptId = concepts[2].id /\ annotations[k].id[1] = "gemini"
    /\ pending = <<>>
    /\ ~isProcessing


\* C22: a concept is added with the colour COLORS[n mod L], n being the
\* number of concepts in the list at the moment it is added and L the
\* length of the palette, and with isVisible true.
C22_ColourByCountAtAddition ==
    [][\A i \in DOMAIN pending :
          Returns(i)
          => /\ concepts'[Len(concepts')].color = Len(concepts) % 7
             /\ concepts'[Len(concepts')].isVisible = TRUE]_vars


-----------------------------------------------------------------------------
(* Reject and the presence score *)

\* the concept ids of the annotations that carry the id
Owners(id) ==
    {annotations[k].conceptId :
        k \in {n \in DOMAIN annotations : annotations[n].id = id}}

\* C23: rejectMask leaves the presenceScore of every concept as it was, the
\* owning concept's included, and changes no field of any concept but the
\* instanceCount of the owning concept.
C23_RejectKeepsScore ==
    [][\A id \in ApiIds :
          (rejectMask(id) /\ Owners(id) # {})
          => /\ Len(concepts') = Len(concepts)
             /\ \A j \in DOMAIN concepts :
                   /\ concepts'[j].presenceScore = concepts[j].presenceScore
                   /\ [concepts'[j] EXCEPT
                         !.instanceCount = concepts[j].instanceCount]
                      = concepts[j]
                   /\ concepts[j].id \notin Owners(id)
                      => concepts'[j] = concepts[j]]_vars

\* C23 witness: one annotation of a simulated batch of two (0.6 and 0.9) was
\* rejected and the concept still shows the mean 0.75 of the two.
C23_Witness ==
    \E j \in DOMAIN concepts :
       /\ concepts[j].instanceCount = 1
       /\ concepts[j].presenceScore = [num |-> 150, den |-> 2]
       /\ Len(SelectSeq(annotations,
                LAMBDA a : a.conceptId = concepts[j].id)) = 1


-----------------------------------------------------------------------------
(* Pointer events that draw nothing *)

\* C24: with the select tool, or with no active concept, no pointer-down,
\* pointer-move, pointer-up or double-click adds an annotation, and a
\* pointer-down leaves isDrawing and the accumulated points as they are.
C24_NoDrawingWithoutToolOrConcept ==
    [][(selectedTool = "select" \/ activeConceptId = NoId)
       => \A t \in Clock :
             /\ handleMouseDown(t)
                => /\ annotations' = annotations /\ concepts' = concepts
                   /\ isDrawing' = isDrawing
                   /\ currentPoints' = currentPoints
             /\ (\/ handleMouseUp(t)
                 \/ handleDoubleClick(t)
                 \/ \E p \in CanvasPositions : handleMouseMove(p))
                => (annotations' = annotations /\ concepts' = concepts)]_vars

\* C24 witness: the button is down over the canvas with the box tool, a
\* concept in the ledger and no active concept, and nothing is being drawn.
C24_Witness ==
    /\ selectedTool = "box"
    /\ activeConceptId = NoId
    /\ concepts # <<>>
    /\ pointer.down
    /\ ~isDrawing
    /\ currentPoints = <<>>


-----------------------------------------------------------------------------
(* Ids within a batch *)

\* C26: the annotations of one batch of detectObjects or of mockSAM3Detect
\* have pairwise distinct ids, whatever Date.now() reads during the batch.
C26_BatchIdsDistinct ==
    [][\A i \in DOMAIN pending :
          Returns(i)
          => \A k, n \in DOMAIN Appended :
                k # n => Appended[k].id # Appended[n].id]_vars

\* C26 witness: a batch of the backend and a batch of the simulator are in
\* the store, each stamped with two different clock readings, the later
\* record with the earlier reading.
C26_Witness ==
    /\ Len(annotations) = 4
    /\ annotations[1].id[2] > annotations[2].id[2]
    /\ annotations[3].id[2] > annotations[4].id[2]
    /\ annotations[1].conceptId = annotations[2].conceptId
    /\ annotations[3].conceptId = annotations[4].conceptId
    /\ \E k \in 1..4 : annotations[k].id[1] = "gemini"
    /\ \E k \in 1..4 : annotations[k].id[1] = "sam3"


-----------------------------------------------------------------------------
(* Verification at birth *)

\* C27: every annotation a detection batch adds to the store, from the
\* backend or from the simulator, is unverified when it is added.
C27_BatchesBornUnverified ==
    [][\A i \in DOMAIN pending :
          Returns(i)
          => \A k \in DOMAIN Appended : Appended[k].isVerified = FALSE]_vars


-----------------------------------------------------------------------------
(* Concept ids *)

\* C28: no two concepts of the list have the same id, also when a name
\* deriving the same id is submitted while the first request is in flight.
C28_ConceptIdsDistinct ==
    \A i, j \in DOMAIN concepts : i # j => concepts[i].id # concepts[j].id


-----------------------------------------------------------------------------
(* Upload while a request is in flight *)

\* C29: a detection request issued for another image than the one now
\* shown adds no concept and no annotation to the store when it returns.
C29_NoResultsOfOldImage ==
    [][\A i \in DOMAIN pending :
          (Returns(i) /\ pending[i].image # imageSrc)
          => (concepts' = concepts /\ annotations' = annotations)]_vars


-----------------------------------------------------------------------------
(* Playback time *)

\* C30: the playback time is within [0, 100] in every reachable state, from
\* the initial value 20 and after any seek to a value of [0, 100].
C30_TimeInRange == 0 <= currentTime /\ currentTime <= 1000

=============================================================================
